---- MODULE Spec2Model ----
(***************************************************************************)
(* Model of klient (src/main.py): the credential functions (generate_key,  *)
(* load_key, encrypt_api_key, decrypt_api_key, verify_api_key,             *)
(* handle_api_key) and the CLI commands (upload, list_files, search,       *)
(* info).                                                                  *)
(*                                                                         *)
(* The two files under ~/.config are shared state.  handle_api_key is      *)
(* modelled as a process that can run in several invocations at once, one  *)
(* step per file-system call, network call or terminal read.               *)
(***************************************************************************)
EXTENDS Integers, FiniteSets, Sequences, TLC

\* ---------------------------------------------------------------- bounds
\* getpass calls one invocation may make (the loop of lines 79-89 has no cap)
MaxPrompts == 3

\* the invocations of handle_api_key: two, run one after the other or at
\* the same time
Procs == {1, 2}

\* ------------------------------------------------------------ value sets
ApiKeys == {"good-key", "bad-key"}
None == "None"

\* HTTP outcomes of a request: a status code, or a transport exception
\* (requests.exceptions.RequestException).
NetErr == 0
\* no request made yet
NoResp == 0 - 1
Statuses == {200, 401, 500}
Responses == Statuses \cup {NetErr}

\* File contents.  A file is absent, empty (created / truncated by
\* open(..., "wb") and not yet written), garbage (corrupt or partial bytes),
\* a Fernet key, or a Fernet token.
Absent == [kind |-> "absent"]
Empty == [kind |-> "empty"]
Garbage == [kind |-> "garbage"]
KeyBytes(id) == [kind |-> "key", id |-> id]
\* The key file that exists before the first invocation, and a key that is
\* not the one on disk (a credential sealed on another machine / profile).
InstalledKeyId == 1
ForeignKeyId == 0
FirstFreshKeyId == 2

\* ------------------------------------------------------- Fernet (lines 35-44)
\* Fernet(key) raises ValueError unless key is 32 url-safe base64 bytes.
FernetValid(keyBytes) == keyBytes.kind = "key"

\* fernet.encrypt(api_key.encode()): a token bound to the key it was made
\* with.  The random IV / timestamp are not represented.
encrypt_api_key(keyBytes, apiKey) ==
    [kind |-> "token", sk |-> keyBytes.id, pt |-> apiKey]

\* fernet.decrypt(encrypted_key) raises InvalidToken unless the bytes are a
\* token whose HMAC verifies under this key.
DecryptOk(keyBytes, blob) ==
    /\ FernetValid(keyBytes)
    /\ blob.kind = "token"
    /\ blob.sk = keyBytes.id

decrypt_api_key(keyBytes, blob) == blob.pt

\* ------------------------------------------------ verify_api_key (47-61)
\* variant: only an explicit 401 counts as a rejection
verify_api_key_Not401(resp) == resp \in Statuses /\ resp # 401

verify_api_key(resp) == resp = 200

\* the diagnostic verify_api_key prints (only in the except branch)
VerifyDiag(resp) == IF resp = NetErr THEN {"ErrDuringVerification"} ELSE {}

\* ------------------------------------------------------------------ state
VARIABLES
    keyFile,        \* contents of ENCRYPTION_KEY_FILE
    configFile,     \* contents of CONFIG_FILE
    nextKeyId,      \* source of fresh Fernet.generate_key() values
    pc,             \* per invocation: position in handle_api_key
    api_key,        \* per invocation: local api_key
    encrypted_key,  \* per invocation: bytes read from CONFIG_FILE
    sk,             \* per invocation: bytes load_key returned
    newKey,         \* per invocation: key made by generate_key
    prompts,        \* per invocation: number of getpass calls
    rejects,        \* per invocation: prompted keys verify_api_key refused
    verified,       \* per invocation: keys verify_api_key accepted
    wrote,          \* per invocation: has it opened CONFIG_FILE for writing
    out,            \* per invocation: messages printed on the console
    result,         \* per invocation: value returned
    via,            \* per invocation: "cache" or "prompt" return path
    lastResp,       \* per invocation: last response seen by verify_api_key
    cmd,            \* CLI: command being run
    optKey,         \* CLI: value of --api-key (None when not given)
    cpc,            \* CLI: position in the command
    exitCode,       \* CLI: process exit code (-1 while running)
    cout,           \* CLI: messages printed
    reqs,           \* CLI: endpoints a request has been sent to
    vResp,          \* CLI: outcome of upload_file's /verify request
    apiResp         \* CLI: outcome of the API request (NoResp before it)

resolverVars == <<keyFile, configFile, nextKeyId, pc, api_key, encrypted_key,
                  sk, newKey, prompts, rejects, verified, wrote, out, result,
                  via, lastResp>>
cliVars == <<cmd, optKey, cpc, exitCode, cout, reqs, vResp, apiResp>>
vars == <<keyFile, configFile, nextKeyId, pc, api_key, encrypted_key,
          sk, newKey, prompts, rejects, verified, wrote, out, result,
          via, lastResp, cmd, optKey, cpc, exitCode, cout, reqs, vResp,
          apiResp>>

InitialKeyFiles == {Absent, KeyBytes(InstalledKeyId)}
InitialConfigFiles ==
    {Absent, Garbage}
      \cup {encrypt_api_key(KeyBytes(InstalledKeyId), k) : k \in ApiKeys}
      \cup {encrypt_api_key(KeyBytes(ForeignKeyId), "good-key")}

Init ==
    /\ keyFile \in InitialKeyFiles
    /\ configFile \in InitialConfigFiles
    /\ nextKeyId = FirstFreshKeyId
    /\ pc = [p \in Procs |-> "idle"]
    /\ api_key = [p \in Procs |-> None]
    /\ encrypted_key = [p \in Procs |-> Absent]
    /\ sk = [p \in Procs |-> Absent]
    /\ newKey = [p \in Procs |-> Absent]
    /\ prompts = [p \in Procs |-> 0]
    /\ rejects = [p \in Procs |-> 0]
    /\ verified = [p \in Procs |-> {}]
    /\ wrote = [p \in Procs |-> FALSE]
    /\ out = [p \in Procs |-> {}]
    /\ result = [p \in Procs |-> None]
    /\ via = [p \in Procs |-> None]
    /\ lastResp = [p \in Procs |-> NoResp]
    /\ cmd = None
    /\ optKey = None
    /\ cpc = "idle"
    /\ exitCode = 0 - 1
    /\ cout = {}
    /\ reqs = {}
    /\ vResp = NoResp
    /\ apiResp = NoResp

\* --------------------------------------------------------------- helpers
Goto(p, l) == pc' = [pc EXCEPT ![p] = l]
Say(p, msgs) == out' = [out EXCEPT ![p] = @ \cup msgs]

\* the except clause of handle_api_key (lines 74-77): print, then fall out
\* of the if block into the prompt loop
Recover(p, extra) ==
    /\ Say(p, extra \cup {"ErrInvalidEnterNew"})
    /\ Goto(p, "prompt")

\* an exception nothing catches: the invocation ends with a traceback
Crash(p) == Goto(p, "crashed")

\* ------------------------------------------- handle_api_key, cached path
\* line 65: if CONFIG_FILE.exists()
CheckConfig(p) ==
    /\ pc[p] = "idle"
    /\ IF configFile # Absent THEN Goto(p, "open_config") ELSE Goto(p, "prompt")
    /\ UNCHANGED <<keyFile, configFile, nextKeyId, api_key, encrypted_key, sk,
                   newKey, prompts, rejects, verified, wrote, out, result, via,
                   lastResp>>
    /\ UNCHANGED cliVars

\* lines 66-67: open(CONFIG_FILE, "rb") and file.read().  Both are outside
\* the try block, so an OSError (permissions, I/O error) propagates.
OpenConfig(p) ==
    /\ pc[p] = "open_config"
    /\ \E ok \in BOOLEAN :
         IF ok
         THEN /\ encrypted_key' = [encrypted_key EXCEPT ![p] = configFile]
              /\ Goto(p, "d_exists")
         ELSE /\ UNCHANGED encrypted_key
              /\ Crash(p)
    /\ UNCHANGED <<keyFile, configFile, nextKeyId, api_key, sk,
                   newKey, prompts, rejects, verified, wrote, out, result, via,
                   lastResp>>
    /\ UNCHANGED cliVars

\* decrypt_api_key -> load_key, line 30: ENCRYPTION_KEY_FILE.exists()
DecLoadKeyExists(p) ==
    /\ pc[p] = "d_exists"
    /\ IF keyFile = Absent THEN Goto(p, "d_gen_open") ELSE Goto(p, "d_read")
    /\ UNCHANGED <<keyFile, configFile, nextKeyId, api_key, encrypted_key, sk,
                   newKey, prompts, rejects, verified, wrote, out, result, via,
                   lastResp>>
    /\ UNCHANGED cliVars

\* generate_key lines 24-25: Fernet.generate_key(); open(..., "wb") creates
\* or truncates the key file.  Inside the try of handle_api_key: an OSError
\* is caught by line 74.
DecGenOpen(p) ==
    /\ pc[p] = "d_gen_open"
    /\ newKey' = [newKey EXCEPT ![p] = KeyBytes(nextKeyId)]
    /\ nextKeyId' = nextKeyId + 1
    /\ \E ok \in BOOLEAN :
         IF ok
         THEN /\ keyFile' = Empty
              /\ Goto(p, "d_gen_write")
              /\ UNCHANGED out
         ELSE /\ UNCHANGED keyFile
              /\ Recover(p, {})
    /\ UNCHANGED <<configFile, api_key, encrypted_key, sk,
                   prompts, rejects, verified, wrote, result, via, lastResp>>
    /\ UNCHANGED cliVars

\* generate_key line 26: key_file.write(key)
DecGenWrite(p) ==
    /\ pc[p] = "d_gen_write"
    /\ \E ok \in BOOLEAN :
         IF ok
         THEN /\ keyFile' = newKey[p]
              /\ Goto(p, "d_read")
              /\ UNCHANGED out
         ELSE /\ UNCHANGED keyFile
              /\ Recover(p, {})
    /\ UNCHANGED <<configFile, nextKeyId, api_key, encrypted_key, sk, newKey,
                   prompts, rejects, verified, wrote, result, via, lastResp>>
    /\ UNCHANGED cliVars

\* load_key line 32 and decrypt_api_key lines 42-43: read the key file,
\* build the Fernet, decrypt.  Every exception is caught by line 74.
DecReadAndDecrypt(p) ==
    /\ pc[p] = "d_read"
    /\ \E ok \in BOOLEAN :
         IF ok /\ DecryptOk(keyFile, encrypted_key[p])
         THEN /\ sk' = [sk EXCEPT ![p] = keyFile]
              /\ api_key' = [api_key EXCEPT ![p] =
                               decrypt_api_key(keyFile, encrypted_key[p])]
              /\ Goto(p, "c_verify")
              /\ UNCHANGED out
         ELSE /\ UNCHANGED <<sk, api_key>>
              /\ Recover(p, {})
    /\ UNCHANGED <<keyFile, configFile, nextKeyId, encrypted_key, newKey,
                   prompts, rejects, verified, wrote, result, via, lastResp>>
    /\ UNCHANGED cliVars

\* variant: a cached key that verifies is sealed and written again
VerifyCached_Resave(p) ==
    /\ pc[p] = "c_verify"
    /\ \E resp \in Responses :
         /\ lastResp' = [lastResp EXCEPT ![p] = resp]
         /\ IF verify_api_key(resp)
            THEN /\ verified' = [verified EXCEPT ![p] = @ \cup {api_key[p]}]
                 /\ Goto(p, "w_open")
                 /\ UNCHANGED out
            ELSE /\ Recover(p, VerifyDiag(resp))
                 /\ UNCHANGED verified
    /\ UNCHANGED <<keyFile, configFile, nextKeyId, api_key, encrypted_key, sk,
                   newKey, prompts, rejects, wrote, result, via>>
    /\ UNCHANGED cliVars

\* lines 70-73: verify the cached key; return it, or raise ValueError which
\* line 74 catches.
VerifyCached(p) ==
    /\ pc[p] = "c_verify"
    /\ \E resp \in Responses :
         /\ lastResp' = [lastResp EXCEPT ![p] = resp]
         /\ IF verify_api_key(resp)
            THEN /\ verified' = [verified EXCEPT ![p] = @ \cup {api_key[p]}]
                 /\ result' = [result EXCEPT ![p] = api_key[p]]
                 /\ via' = [via EXCEPT ![p] = "cache"]
                 /\ Goto(p, "returned")
                 /\ UNCHANGED out
            ELSE /\ Recover(p, VerifyDiag(resp))
                 /\ UNCHANGED <<verified, result, via>>
    /\ UNCHANGED <<keyFile, configFile, nextKeyId, api_key, encrypted_key, sk,
                   newKey, prompts, rejects, wrote>>
    /\ UNCHANGED cliVars

\* ------------------------------------------- handle_api_key, prompt loop
\* line 80: getpass.  Any string may be typed, the empty one included.
Prompt(p) ==
    /\ pc[p] = "prompt"
    /\ prompts[p] < MaxPrompts
    /\ \E k \in ApiKeys :
         api_key' = [api_key EXCEPT ![p] = k]
    /\ prompts' = [prompts EXCEPT ![p] = @ + 1]
    /\ Goto(p, "p_verify")
    /\ UNCHANGED <<keyFile, configFile, nextKeyId, encrypted_key, sk,
                   newKey, rejects, verified, wrote, out, result, via,
                   lastResp>>
    /\ UNCHANGED cliVars

\* line 80, Ctrl-C at the prompt: KeyboardInterrupt ends the process
Interrupt(p) ==
    /\ pc[p] = "prompt"
    /\ Goto(p, "aborted")
    /\ UNCHANGED <<keyFile, configFile, nextKeyId, api_key, encrypted_key, sk,
                   newKey, prompts, rejects, verified, wrote, out, result, via,
                   lastResp>>
    /\ UNCHANGED cliVars

\* variant: the typed key is saved whatever verify_api_key answered
VerifyPrompted_SaveAnyway(p) ==
    /\ pc[p] = "p_verify"
    /\ \E resp \in Responses :
         /\ lastResp' = [lastResp EXCEPT ![p] = resp]
         /\ Say(p, VerifyDiag(resp))
         /\ verified' = [verified EXCEPT ![p] =
                           IF verify_api_key(resp) THEN @ \cup {api_key[p]}
                           ELSE @]
         /\ Goto(p, "w_open")
    /\ UNCHANGED <<keyFile, configFile, nextKeyId, api_key, encrypted_key, sk,
                   newKey, prompts, rejects, wrote, result, via>>
    /\ UNCHANGED cliVars

\* variant: a refused key ends the invocation instead of prompting again
VerifyPrompted_GiveUp(p) ==
    /\ pc[p] = "p_verify"
    /\ \E resp \in Responses :
         /\ lastResp' = [lastResp EXCEPT ![p] = resp]
         /\ IF verify_api_key(resp)
            THEN /\ verified' = [verified EXCEPT ![p] = @ \cup {api_key[p]}]
                 /\ Goto(p, "w_open")
                 /\ UNCHANGED <<out, rejects>>
            ELSE /\ Say(p, VerifyDiag(resp) \cup {"ErrInvalidTryAgain"})
                 /\ rejects' = [rejects EXCEPT ![p] = @ + 1]
                 /\ Crash(p)
                 /\ UNCHANGED verified
    /\ UNCHANGED <<keyFile, configFile, nextKeyId, api_key, encrypted_key, sk,
                   newKey, prompts, wrote, result, via>>
    /\ UNCHANGED cliVars

\* lines 81, 86-89: verify the typed key
VerifyPrompted(p) ==
    /\ pc[p] = "p_verify"
    /\ \E resp \in Responses :
         /\ lastResp' = [lastResp EXCEPT ![p] = resp]
         /\ IF verify_api_key(resp)
            THEN /\ verified' = [verified EXCEPT ![p] = @ \cup {api_key[p]}]
                 /\ Goto(p, "w_open")
                 /\ UNCHANGED <<out, rejects>>
            ELSE /\ Say(p, VerifyDiag(resp) \cup {"ErrInvalidTryAgain"})
                 /\ rejects' = [rejects EXCEPT ![p] = @ + 1]
                 /\ Goto(p, "prompt")
                 /\ UNCHANGED verified
    /\ UNCHANGED <<keyFile, configFile, nextKeyId, api_key, encrypted_key, sk,
                   newKey, prompts, wrote, result, via>>
    /\ UNCHANGED cliVars

\* line 82: open(CONFIG_FILE, "wb") truncates the credential file before
\* encrypt_api_key is evaluated.
WriteOpen(p) ==
    /\ pc[p] = "w_open"
    /\ \E ok \in BOOLEAN :
         IF ok
         THEN /\ configFile' = Empty
              /\ wrote' = [wrote EXCEPT ![p] = TRUE]
              /\ Goto(p, "e_exists")
         ELSE /\ UNCHANGED <<configFile, wrote>>
              /\ Crash(p)
    /\ UNCHANGED <<keyFile, nextKeyId, api_key, encrypted_key, sk,
                   newKey, prompts, rejects, verified, out, result, via,
                   lastResp>>
    /\ UNCHANGED cliVars

\* encrypt_api_key -> load_key, line 30
EncLoadKeyExists(p) ==
    /\ pc[p] = "e_exists"
    /\ IF keyFile = Absent THEN Goto(p, "e_gen_open") ELSE Goto(p, "e_read")
    /\ UNCHANGED <<keyFile, configFile, nextKeyId, api_key, encrypted_key, sk,
                   newKey, prompts, rejects, verified, wrote, out, result, via,
                   lastResp>>
    /\ UNCHANGED cliVars

\* generate_key lines 24-25, called from the prompt loop: nothing catches
EncGenOpen(p) ==
    /\ pc[p] = "e_gen_open"
    /\ newKey' = [newKey EXCEPT ![p] = KeyBytes(nextKeyId)]
    /\ nextKeyId' = nextKeyId + 1
    /\ \E ok \in BOOLEAN :
         IF ok
         THEN /\ keyFile' = Empty
              /\ Goto(p, "e_gen_write")
         ELSE /\ UNCHANGED keyFile
              /\ Crash(p)
    /\ UNCHANGED <<configFile, api_key, encrypted_key, sk,
                   prompts, rejects, verified, wrote, out, result, via,
                   lastResp>>
    /\ UNCHANGED cliVars

\* generate_key line 26
EncGenWrite(p) ==
    /\ pc[p] = "e_gen_write"
    /\ \E ok \in BOOLEAN :
         IF ok
         THEN /\ keyFile' = newKey[p]
              /\ Goto(p, "e_read")
         ELSE /\ UNCHANGED keyFile
              /\ Crash(p)
    /\ UNCHANGED <<configFile, nextKeyId, api_key, encrypted_key, sk, newKey,
                   prompts, rejects, verified, wrote, out, result, via,
                   lastResp>>
    /\ UNCHANGED cliVars

\* load_key line 32 and encrypt_api_key line 36: read the key file and build
\* the Fernet; ValueError on an empty or malformed key file.
EncReadKey(p) ==
    /\ pc[p] = "e_read"
    /\ \E ok \in BOOLEAN :
         IF ok /\ FernetValid(keyFile)
         THEN /\ sk' = [sk EXCEPT ![p] = keyFile]
              /\ Goto(p, "e_write")
         ELSE /\ UNCHANGED sk
              /\ Crash(p)
    /\ UNCHANGED <<keyFile, configFile, nextKeyId, api_key, encrypted_key,
                   newKey, prompts, rejects, verified, wrote, out, result, via,
                   lastResp>>
    /\ UNCHANGED cliVars

\* lines 37, 83-85: encrypt, write the token, close the file, print, return.
\* A failed write leaves the file empty or with part of the token.
PersistAndReturn(p) ==
    /\ pc[p] = "e_write"
    /\ \E ok \in BOOLEAN :
         IF ok
         THEN /\ configFile' = encrypt_api_key(sk[p], api_key[p])
              /\ Say(p, {"SavedOk"})
              /\ result' = [result EXCEPT ![p] = api_key[p]]
              /\ via' = [via EXCEPT ![p] = "prompt"]
              /\ Goto(p, "returned")
         ELSE /\ configFile' \in {Empty, Garbage}
              /\ UNCHANGED <<out, result, via>>
              /\ Crash(p)
    /\ UNCHANGED <<keyFile, nextKeyId, api_key, encrypted_key, sk,
                   newKey, prompts, rejects, verified, wrote, lastResp>>
    /\ UNCHANGED cliVars

handle_api_key(p) ==
    \/ CheckConfig(p)
    \/ OpenConfig(p)
    \/ DecLoadKeyExists(p)
    \/ DecGenOpen(p)
    \/ DecGenWrite(p)
    \/ DecReadAndDecrypt(p)
    \/ VerifyCached(p)
    \/ Prompt(p)
    \/ Interrupt(p)
    \/ VerifyPrompted(p)
    \/ WriteOpen(p)
    \/ EncLoadKeyExists(p)
    \/ EncGenOpen(p)
    \/ EncGenWrite(p)
    \/ EncReadKey(p)
    \/ PersistAndReturn(p)

\* ------------------------------------------------------------ CLI commands
Commands == {"upload", "list_files", "search", "info"}
AuthCommands == {"upload", "list_files", "search"}
EmptyStr == ""
OptKeys == {None, EmptyStr} \cup ApiKeys

\* `if not api_key`: the option was not given, or is the empty string
KeyMissing(k) == k = None \/ k = EmptyStr

Endpoint(c) ==
    CASE c = "upload" -> "/upload"
      [] c = "list_files" -> "/files"
      [] c = "search" -> "/search"
      [] c = "info" -> "/info"

\* the command function returns or raises typer.Exit: the process ends
Finish(code, msgs) ==
    /\ cpc' = "done"
    /\ exitCode' = code
    /\ cout' = cout \cup msgs

\* lines 154-156, 163-165, 219-221
ExitKeyRequired == Finish(1, {"ErrKeyRequired"})

\* The try blocks of upload_file (109-127), list_files (170-186), search
\* (227-243) and info (264-283): one request; status 200 renders the
\* payload; any other status prints "Error <status>: <text>" and the
\* function returns normally; RequestException prints and raises
\* typer.Exit(code=1).  A 200 payload that cannot be decoded or rendered
\* raises (caught as a RequestException, or not caught at all).
DoRequest(resp, payloadOk) ==
    /\ reqs' = reqs \cup {Endpoint(cmd)}
    /\ apiResp' = resp
    /\ IF resp = NetErr THEN Finish(1, {"ErrTransport"})
       ELSE IF resp = 200
            THEN IF payloadOk THEN Finish(0, {"Rendered"})
                 ELSE \E m \in {"ErrTransport", "Traceback"} : Finish(1, {m})
            ELSE Finish(0, {"ErrStatusText"})

\* typer dispatches the command named on the command line
Invoke ==
    /\ cpc = "idle"
    /\ cmd' \in Commands
    /\ optKey' \in OptKeys
    /\ cpc' = "entered"
    /\ UNCHANGED <<exitCode, cout, reqs, vResp, apiResp>>
    /\ UNCHANGED resolverVars

\* upload, lines 150-158
upload ==
    /\ cpc = "entered"
    /\ cmd = "upload"
    /\ IF KeyMissing(optKey)
       THEN ExitKeyRequired
       ELSE /\ cpc' = "u_verify"
            /\ cout' = cout \cup {"Uploading"}
            /\ UNCHANGED exitCode
    /\ UNCHANGED <<cmd, optKey, reqs, vResp, apiResp>>
    /\ UNCHANGED resolverVars

\* variant: the refusal is printed but the upload goes on
UploadVerify_NoExit ==
    /\ cpc = "u_verify"
    /\ \E resp \in Responses :
         /\ vResp' = resp
         /\ reqs' = reqs \cup {"/verify"}
         /\ cpc' = "u_file"
         /\ cout' = cout \cup VerifyDiag(resp) \cup
                      (IF verify_api_key(resp) THEN {} ELSE {"ErrInvalidApiKey"})
         /\ UNCHANGED exitCode
    /\ UNCHANGED <<cmd, optKey, apiResp>>
    /\ UNCHANGED resolverVars

\* upload_file, lines 92-96
UploadVerify ==
    /\ cpc = "u_verify"
    /\ \E resp \in Responses :
         /\ vResp' = resp
         /\ reqs' = reqs \cup {"/verify"}
         /\ IF verify_api_key(resp)
            THEN /\ cpc' = "u_file"
                 /\ cout' = cout \cup VerifyDiag(resp)
                 /\ UNCHANGED exitCode
            ELSE Finish(1, VerifyDiag(resp) \cup {"ErrInvalidApiKey"})
    /\ UNCHANGED <<cmd, optKey, apiResp>>
    /\ UNCHANGED resolverVars

\* upload_file, lines 101-107
UploadFileCheck ==
    /\ cpc = "u_file"
    /\ \E isFile \in BOOLEAN :
         IF isFile
         THEN /\ cpc' = "u_post"
              /\ UNCHANGED <<exitCode, cout>>
         ELSE Finish(1, {"ErrFileMissing"})
    /\ UNCHANGED <<cmd, optKey, reqs, vResp, apiResp>>
    /\ UNCHANGED resolverVars

\* upload_file, lines 109-127
UploadPost ==
    /\ cpc = "u_post"
    /\ \E resp \in Responses, payloadOk \in BOOLEAN : DoRequest(resp, payloadOk)
    /\ UNCHANGED <<cmd, optKey, vResp>>
    /\ UNCHANGED resolverVars

\* list_files, lines 162-186
list_files ==
    /\ cpc = "entered"
    /\ cmd = "list_files"
    /\ IF KeyMissing(optKey)
       THEN ExitKeyRequired /\ UNCHANGED <<reqs, apiResp>>
       ELSE \E resp \in Responses, payloadOk \in BOOLEAN :
              DoRequest(resp, payloadOk)
    /\ UNCHANGED <<cmd, optKey, vResp>>
    /\ UNCHANGED resolverVars

\* search, lines 214-243
search ==
    /\ cpc = "entered"
    /\ cmd = "search"
    /\ IF KeyMissing(optKey)
       THEN ExitKeyRequired /\ UNCHANGED <<reqs, apiResp>>
       ELSE \E resp \in Responses, payloadOk \in BOOLEAN :
              DoRequest(resp, payloadOk)
    /\ UNCHANGED <<cmd, optKey, vResp>>
    /\ UNCHANGED resolverVars

\* info, lines 261-283: no key involved
info ==
    /\ cpc = "entered"
    /\ cmd = "info"
    /\ \E resp \in Responses, payloadOk \in BOOLEAN : DoRequest(resp, payloadOk)
    /\ UNCHANGED <<cmd, optKey, vResp>>
    /\ UNCHANGED resolverVars

CliNext ==
    \/ Invoke
    \/ upload
    \/ UploadVerify
    \/ UploadFileCheck
    \/ UploadPost
    \/ list_files
    \/ search
    \/ info

\* one CLI invocation, on any state of the two files
CliSpec == Init /\ [][CliNext]_vars

\* ------------------------------------------------- resolver specifications
Terminal == {"returned", "crashed", "aborted"}

\* invocations of handle_api_key one after the other (section 5 of the
\* design: a single-threaded tool, one resolution per invocation)
SeqStart(p) ==
    /\ \A q \in Procs \ {p} : pc[q] \in Terminal \cup {"idle"}
    /\ CheckConfig(p)

SeqNext ==
    \E p \in Procs :
        \/ SeqStart(p)
        \/ OpenConfig(p)
        \/ DecLoadKeyExists(p)
        \/ DecGenOpen(p)
        \/ DecGenWrite(p)
        \/ DecReadAndDecrypt(p)
        \/ VerifyCached(p)
        \/ Prompt(p)
        \/ Interrupt(p)
        \/ VerifyPrompted(p)
        \/ WriteOpen(p)
        \/ EncLoadKeyExists(p)
        \/ EncGenOpen(p)
        \/ EncGenWrite(p)
        \/ EncReadKey(p)
        \/ PersistAndReturn(p)

SeqSpec == Init /\ [][SeqNext]_vars

\* invocations of handle_api_key running at the same time
Next == \E p \in Procs : handle_api_key(p)

Spec == Init /\ [][Next]_vars

\* ================================================================ properties

\* the step of the current transition is a step of invocation p
Stepped(p) == pc'[p] # pc[p]

\* C1: the credential file is changed only by an invocation whose current
\* key verify_api_key accepted in this run, and a token placed in the file
\* is the encryption of exactly that key; a key that was refused, or never
\* verified, is never written.
C1_OnlyVerifiedKeyWritten ==
    [][configFile' # configFile =>
         \E p \in Procs :
             /\ Stepped(p)
             /\ api_key[p] \in verified[p]
             /\ lastResp[p] = 200
             /\ (configFile'.kind = "token" => configFile'.pt = api_key[p])]_vars

\* C1 witness: an invocation had a typed key refused, then one accepted, and
\* the file holds the encryption of the accepted one.
C1_Witness ==
    \E p \in Procs :
        /\ pc[p] = "returned"
        /\ via[p] = "prompt"
        /\ rejects[p] > 0
        /\ configFile = encrypt_api_key(sk[p], result[p])
        /\ result[p] \in verified[p]

\* C2: in the prompt loop a refused key always leads back to the prompt (no
\* failure exit, no count of attempts consulted); the invocation returns
\* from the loop only on the first accepted key, it returns the key typed at
\* that prompt, and the credential file then decrypts, under the key file on
\* disk, to the returned key.
C2_PromptLoopConverges ==
    [][\A p \in Procs :
         /\ (pc[p] = "p_verify" /\ Stepped(p) /\ lastResp'[p] # 200
               => /\ pc'[p] = "prompt"
                  /\ rejects'[p] = rejects[p] + 1
                  /\ configFile' = configFile)
         /\ (pc[p] = "p_verify" /\ Stepped(p) /\ lastResp'[p] = 200
               => /\ pc'[p] = "w_open"
                  /\ prompts[p] = rejects[p] + 1)
         /\ (Stepped(p) /\ pc'[p] = "returned" /\ via'[p] = "prompt"
               => /\ result'[p] = api_key[p]
                  /\ lastResp[p] = 200
                  /\ prompts[p] = rejects[p] + 1
                  /\ DecryptOk(keyFile', configFile')
                  /\ decrypt_api_key(keyFile', configFile') = result'[p])]_vars

\* C2 witness: responses [false, false, true]: three prompts, the third
\* typed value returned and on disk.
C2_Witness ==
    \E p \in Procs :
        /\ pc[p] = "returned"
        /\ via[p] = "prompt"
        /\ prompts[p] = 3
        /\ rejects[p] = 2
        /\ DecryptOk(keyFile, configFile)
        /\ decrypt_api_key(keyFile, configFile) = result[p]

\* C3: when the credential file was read, decrypted under the key file and
\* verify_api_key accepts the decrypted key, the invocation returns that key
\* at once: no prompt was made, the credential file was never opened for
\* writing and its content is the one that was read.
C3_CachedKeyReturnedUntouched ==
    [][\A p \in Procs :
         (pc[p] = "c_verify" /\ Stepped(p) /\ lastResp'[p] = 200)
           => /\ pc'[p] = "returned"
              /\ DecryptOk(sk[p], encrypted_key[p])
              /\ result'[p] = decrypt_api_key(sk[p], encrypted_key[p])
              /\ prompts'[p] = 0
              /\ ~wrote'[p]
              /\ configFile' = encrypted_key[p]]_vars

\* C3 witness: an invocation returned the cached good key without a prompt
C3_Witness ==
    \E p \in Procs :
        /\ pc[p] = "returned"
        /\ via[p] = "cache"
        /\ result[p] = "good-key"
        /\ prompts[p] = 0
        /\ configFile = encrypt_api_key(KeyBytes(InstalledKeyId), "good-key")

\* C4 (as claimed): no failure of the load / decrypt phase ends the
\* invocation with an error: an invocation that crashed had reached the
\* prompt loop.
C4_LoadFailuresRecovered ==
    \A p \in Procs : pc[p] = "crashed" => prompts[p] > 0

\* C5 (as claimed): once a typed key has been accepted the invocation does
\* not abort, whatever happens to sealing and writing, and the credential
\* file is never left truncated or partly written by an invocation that has
\* ended.
C5_PersistFailureDegrades ==
    \A p \in Procs :
        (prompts[p] > 0 /\ api_key[p] \in verified[p])
          => /\ pc[p] # "crashed"
             /\ (pc[p] \in {"returned", "crashed"} /\ wrote[p]
                   => configFile \notin {Empty, Garbage})

\* C6: verify_api_key answers true exactly for status 200; a transport
\* failure answers false and prints a diagnostic, a status never prints it;
\* for a cached key every answer other than 200, the transport failure
\* included, sends the invocation to the prompt loop.
C6_VerifyTrueIffStatus200 ==
    [][\A p \in Procs :
         /\ (pc[p] = "c_verify" /\ Stepped(p)
               => /\ (pc'[p] = "returned") = (lastResp'[p] = 200)
                  /\ (lastResp'[p] # 200 => pc'[p] = "prompt"))
         /\ (pc[p] = "p_verify" /\ Stepped(p)
               => /\ (pc'[p] = "w_open") = (lastResp'[p] = 200)
                  /\ (lastResp'[p] # 200 => pc'[p] = "prompt"))
         /\ (pc[p] \in {"c_verify", "p_verify"} /\ Stepped(p)
               => ("ErrDuringVerification" \in out'[p] \ out[p]
                     => lastResp'[p] = NetErr)
                  /\ (lastResp'[p] = NetErr
                        => "ErrDuringVerification" \in out'[p]))]_vars

\* C6 witness: a cached key that decrypts, a transport failure while it is
\* verified, and the invocation at the prompt.
C6_Witness ==
    \E p \in Procs :
        /\ pc[p] = "prompt"
        /\ prompts[p] = 0
        /\ DecryptOk(sk[p], encrypted_key[p])
        /\ lastResp[p] = NetErr
        /\ "ErrDuringVerification" \in out[p]

ErrorMessages == {"ErrStatusText", "ErrTransport", "Traceback"}

\* C7 (as claimed): a command whose API request did not return status 200
\* ends with an error message and a non-zero exit code, and exit code 0
\* after a request means the request returned 200.
C7_ApiFailureExitsNonZero ==
    (cpc = "done" /\ apiResp # NoResp)
      => /\ (apiResp # 200 => exitCode # 0 /\ cout \cap ErrorMessages # {})
         /\ (exitCode = 0 => apiResp = 200)

C9_CachedCredentialReachesRequest ==
    (/\ cpc = "done"
     /\ cmd \in AuthCommands
     /\ optKey = None
     /\ DecryptOk(keyFile, configFile))
      => Endpoint(cmd) \in reqs

\* C10 (as claimed): a token an invocation has written and that is still in
\* the credential file decrypts under the key file now on disk.
C10_WrittenBlobOpensUnderDiskKey ==
    \A p \in Procs :
        (/\ pc[p] = "returned"
         /\ via[p] = "prompt"
         /\ configFile = encrypt_api_key(sk[p], result[p]))
          => DecryptOk(keyFile, configFile)

====
